---------------------------- MODULE Spec2Model ----------------------------
(***************************************************************************)
(* Model of the hospital room directory (MDirectory): the data module      *)
(* (room/occupant merge, tag and session import/export, unified tag        *)
(* search, autocomplete) and the tag modal of app.js.                      *)
(*                                                                         *)
(* Strings are sequences of one-character strings, so that toLowerCase,    *)
(* split, startsWith and includes are computed character by character.     *)
(* A JavaScript value of a spreadsheet cell is a record [t, n, s]:         *)
(*   t = "undef" (absent/undefined), "null", "num" (value n), "str" (s).   *)
(*                                                                         *)
(* state.fuse and state.autocompleteItems are computed by createSearchIndex *)
(* from the dataset and the two annotation maps as they are when it runs.  *)
(* The variable indexed holds those three values as createSearchIndex last *)
(* read them; fuse and autocompleteItems are defined from it.              *)
(***************************************************************************)
EXTENDS Integers, Sequences, FiniteSets, TLC

VARIABLES
    processedData,          \* state.processedData: sequence of room records
    dataIsArray,            \* FALSE when state.processedData holds a non-array JSON object
    customTags,             \* state.customTags: room-id key -> sequence of rich tags
    staffTags,              \* state.staffTags: room-id key -> sequence of strings
    buildingColors,         \* state.buildingColors: building -> colour index
    unmappedAbbreviations,  \* state.unmappedAbbreviations: code -> count
    availableBuildings,     \* state.availableBuildings (sorted list)
    availableFloors,        \* state.availableFloors (sorted list)
    availableTags,          \* state.availableTags (sorted list)
    activeFilters,          \* state.activeFilters: [building, floor, tags]
    searchQuery,            \* state.searchQuery
    currentViewMode,        \* state.currentViewMode
    resultsPerPage,         \* state.resultsPerPage
    currentFilteredData,    \* state.currentFilteredData
    indexed,                \* what createSearchIndex last read: [built, processedData, customTags, staffTags]
    currentRoomIdForModal,  \* app.js currentRoomIdForModal: [open, id]
    download,               \* the file last handed to downloadFile (kept by the user)
    exported,               \* history: the dataset and facets exportSession serialized
    loadedFiles,            \* state.loadedFiles: sequence of outcome records [type, status]
    assignedIds,            \* history: the ids that room merges have assigned so far
    batch                   \* handleFiles in progress: its files and the lists it sorted them into

\* the store and the downloads: everything but the position of handleFiles
storeVars == <<processedData, dataIsArray, customTags, staffTags,
               buildingColors, unmappedAbbreviations, availableBuildings,
               availableFloors, availableTags, activeFilters, searchQuery,
               currentViewMode, resultsPerPage, currentFilteredData, indexed,
               currentRoomIdForModal, download, exported, loadedFiles,
               assignedIds>>

vars == <<storeVars, batch>>

-----------------------------------------------------------------------------
(* Characters and strings *)

\* The characters of the model in UTF-16 code-unit order (Array.prototype.sort
\* and String comparison order).
CodeOrder ==
    <<" ", ",", "-", "/",
      "0", "1", "2", "3", "4", "5", "6", "7", "8", "9", ":",
      "A", "B", "C", "D", "E", "F", "G", "H", "I", "J", "K", "L", "M",
      "N", "O", "P", "Q", "R", "S", "T", "U", "V", "W", "X", "Y", "Z",
      "a", "b", "c", "d", "e", "f", "g", "h", "i", "j", "k", "l", "m",
      "n", "o", "p", "q", "r", "s", "t", "u", "v", "w", "x", "y", "z">>

Chars == {CodeOrder[i] : i \in 1..Len(CodeOrder)}

Code == [c \in Chars |-> CHOOSE i \in 1..Len(CodeOrder) : CodeOrder[i] = c]

UpperFirst == Code["A"]
UpperLast == Code["Z"]
LowerFirst == Code["a"]

\* String.prototype.toLowerCase on one character
LowerChar(c) ==
    IF Code[c] >= UpperFirst /\ Code[c] <= UpperLast
    THEN CodeOrder[Code[c] - UpperFirst + LowerFirst]
    ELSE c

\* String.prototype.toLowerCase
toLowerCase(s) == [i \in 1..Len(s) |-> LowerChar(s[i])]

IsDigit(c) == Code[c] >= Code["0"] /\ Code[c] <= Code["9"]

\* the character class \s (only the space occurs in the model)
Whitespace == {" "}

\* String.prototype.startsWith
startsWith(s, p) == Len(p) <= Len(s) /\ SubSeq(s, 1, Len(p)) = p

\* String.prototype.includes
includes(s, p) ==
    \E i \in 0..(Len(s) - Len(p)) : SubSeq(s, i + 1, i + Len(p)) = p

\* String.prototype.trim
RECURSIVE trimStart(_)
trimStart(s) ==
    IF s # <<>> /\ Head(s) \in Whitespace THEN trimStart(Tail(s)) ELSE s

RECURSIVE trimEnd(_)
trimEnd(s) ==
    IF s # <<>> /\ s[Len(s)] \in Whitespace
    THEN trimEnd(SubSeq(s, 1, Len(s) - 1))
    ELSE s

trim(s) == trimEnd(trimStart(s))

\* String.prototype.split(/[seps]+/): the pieces between maximal runs of
\* separator characters, empty leading and trailing pieces included.
RECURSIVE SplitFrom(_, _, _, _, _)
SplitFrom(s, seps, i, cur, prevSep) ==
    IF i > Len(s) THEN <<cur>>
    ELSE IF s[i] \in seps
         THEN IF prevSep
              THEN SplitFrom(s, seps, i + 1, cur, TRUE)
              ELSE <<cur>> \o SplitFrom(s, seps, i + 1, <<>>, TRUE)
         ELSE SplitFrom(s, seps, i + 1, Append(cur, s[i]), FALSE)

split(s, seps) == SplitFrom(s, seps, 1, <<>>, FALSE)

\* Number.prototype.toString for the naturals of the model
RECURSIVE NumStr(_)
NumStr(n) ==
    IF n < 10 THEN <<CodeOrder[Code["0"] + n]>>
    ELSE NumStr(n \div 10) \o <<CodeOrder[Code["0"] + (n % 10)]>>

\* lexicographic order on strings by code unit (the default sort order)
RECURSIVE StrLessFrom(_, _, _)
StrLessFrom(a, b, i) ==
    IF i > Len(b) THEN FALSE
    ELSE IF i > Len(a) THEN TRUE
    ELSE IF a[i] = b[i] THEN StrLessFrom(a, b, i + 1)
    ELSE Code[a[i]] < Code[b[i]]

StrLess(a, b) == StrLessFrom(a, b, 1)

\* [...new Set(xs)]: duplicates removed, first occurrences kept in order
Dedupe(xs) ==
    LET F[i \in 0..Len(xs)] ==
            IF i = 0 THEN <<>>
            ELSE IF \E j \in 1..(i - 1) : xs[j] = xs[i] THEN F[i - 1]
            ELSE Append(F[i - 1], xs[i])
    IN F[Len(xs)]

Range(xs) == {xs[i] : i \in 1..Len(xs)}

\* Array.prototype.sort() without comparator on a set of strings
InsertSorted(sorted, x) ==
    LET n == Cardinality({i \in 1..Len(sorted) : StrLess(sorted[i], x)})
    IN SubSeq(sorted, 1, n) \o <<x>> \o SubSeq(sorted, n + 1, Len(sorted))

RECURSIVE SortStrings(_)
SortStrings(S) ==
    IF S = {} THEN <<>>
    ELSE LET x == CHOOSE y \in S : TRUE
         IN InsertSorted(SortStrings(S \ {x}), x)

-----------------------------------------------------------------------------
(* JavaScript values of spreadsheet cells and document fields *)

Undef == [t |-> "undef", n |-> 0, s |-> <<>>]
Null == [t |-> "null", n |-> 0, s |-> <<>>]
Num(k) == [t |-> "num", n |-> k, s |-> <<>>]
Str(x) == [t |-> "str", n |-> 0, s |-> x]

\* ToBoolean(v): what `!v` and `v && ...` test
Truthy(v) == (v.t = "num" /\ v.n # 0) \/ (v.t = "str" /\ v.s # <<>>)

\* String(v) and v.toString() (the latter only called on defined values)
ToStr(v) ==
    CASE v.t = "num" -> NumStr(v.n)
      [] v.t = "str" -> v.s
      [] v.t = "null" -> <<"n", "u", "l", "l">>
      [] OTHER -> <<"u", "n", "d", "e", "f", "i", "n", "e", "d">>

\* a || b on cell values
OrElse(v, w) == IF Truthy(v) THEN v ELSE w

-----------------------------------------------------------------------------
(* Configuration tables read by the data module.  They are defined in the   *)
(* repository's configuration script; the entries below are a small         *)
(* instance of each table.                                                  *)

\* abbreviationMap: built-in code -> label
abbreviationMap ==
    (<<"O", "R">> :> <<"O", "p", "e", "r">>) @@
    (<<"L", "B">> :> <<"L", "a", "b">>)

\* state.customAbbreviationMappings: user override code -> label
customAbbreviationMappings ==
    (<<"L", "B">> :> <<"W", "e", "t">>)

\* fullReplacements: "type subtype" -> composite label
fullReplacements ==
    (<<"O", "p", "e", "r", " ", "X", "R">> :> <<"H", "y", "b", "r", "i", "d">>)

\* tagRules: (pattern, tag); a pattern is a case-insensitive substring test
tagRules ==
    << [pattern |-> <<"l", "a", "b">>, tag |-> <<"L", "a", "b">>],
       [pattern |-> <<"o", "p", "e", "r">>, tag |-> <<"S", "u", "r", "g">>] >>

\* rule.pattern.test(text)
PatternTest(pattern, text) == includes(toLowerCase(text), pattern)

-----------------------------------------------------------------------------
(* Abbreviation / tag normalizer *)

\* normalizeAbbreviation(abbr, unmapped): [label, unmapped] where unmapped is
\* the per-batch counter object after the call
normalizeAbbreviation(abbr, unmapped) ==
    IF ~Truthy(abbr) THEN [label |-> <<>>, unmapped |-> unmapped]
    ELSE LET a == ToStr(abbr) IN
         IF a \in DOMAIN customAbbreviationMappings
         THEN [label |-> customAbbreviationMappings[a], unmapped |-> unmapped]
         ELSE IF a \in DOMAIN abbreviationMap
         THEN [label |-> abbreviationMap[a], unmapped |-> unmapped]
         ELSE IF Len(a) > 0 /\ ~(\A i \in 1..Len(a) : a[i] \in Whitespace)
         THEN [label |-> a,
               unmapped |-> [c \in DOMAIN unmapped \cup {a} |->
                               IF c = a
                               THEN (IF a \in DOMAIN unmapped THEN unmapped[a] ELSE 0) + 1
                               ELSE unmapped[c]]]
         ELSE [label |-> a, unmapped |-> unmapped]

\* generateTags(roomType, department): tags of the rules that fire, in rule order
generateTags(roomType, department) ==
    LET dept == IF Truthy(department) THEN ToStr(department) ELSE <<>>
        fires(i) == PatternTest(tagRules[i].pattern, roomType)
                    \/ PatternTest(tagRules[i].pattern, dept)
        idx == {i \in 1..Len(tagRules) : fires(i)}
        F[i \in 0..Len(tagRules)] ==
            IF i = 0 THEN <<>>
            ELSE IF i \in idx THEN Append(F[i - 1], tagRules[i].tag)
            ELSE F[i - 1]
    IN Dedupe(F[Len(tagRules)])

-----------------------------------------------------------------------------
(* Ingestion merger: room rows *)

\* a parsed spreadsheet row (Papa.parse with dynamicTyping / sheet_to_json)
Row(rmnbr, floor, bld, typ, sub, dept, rec) ==
    [rmnbr |-> rmnbr, floor |-> floor, bld_descrshort |-> bld,
     rmtyp_descrshort |-> typ, rmsubtyp_descrshort |-> sub,
     dept_descr |-> dept, rmrecnbr |-> rec]

UnknownBuilding ==
    <<"U", "n", "k", "n", "o", "w", "n", " ",
      "B", "u", "i", "l", "d", "i", "n", "g">>

\* the guard of the forEach callback: the row is skipped
SkipRow(row) ==
    ~Truthy(row.rmnbr) \/ row.floor.t = "undef" \/ row.floor.t = "null"

\* the composite room-type label of a row, from the normalized type and subtype
typeFull(type, sub) ==
    LET key == trim(type \o <<" ">> \o sub)
        full0 == IF sub # <<>> /\ type # sub
                 THEN type \o <<" ", "-", " ">> \o sub
                 ELSE type
    IN IF key \in DOMAIN fullReplacements /\ fullReplacements[key] # <<>>
       THEN fullReplacements[key]
       ELSE IF type = sub THEN type ELSE full0

\* one iteration of data.forEach in processRoomData; acc holds the locals
\* processed, unmapped, buildings, floors, tags and uniqueIdCounter
ProcessRow(acc, row) ==
    IF SkipRow(row) THEN acc
    ELSE LET building == IF Truthy(row.bld_descrshort)
                         THEN ToStr(row.bld_descrshort)
                         ELSE UnknownBuilding
             t == normalizeAbbreviation(row.rmtyp_descrshort, acc.unmapped)
             u == normalizeAbbreviation(row.rmsubtyp_descrshort, t.unmapped)
             full == typeFull(t.label, u.label)
             rowTags == generateTags(full, row.dept_descr)
             room == [rmnbr |-> row.rmnbr, floor |-> row.floor,
                      bld_descrshort |-> row.bld_descrshort,
                      rmtyp_descrshort |-> row.rmtyp_descrshort,
                      rmsubtyp_descrshort |-> row.rmsubtyp_descrshort,
                      dept_descr |-> row.dept_descr,
                      rmrecnbr |-> row.rmrecnbr,
                      id |-> acc.uniqueIdCounter,
                      typeFull |-> full,
                      tags |-> rowTags,
                      building |-> building]
         IN [processed |-> Append(acc.processed, room),
             unmapped |-> u.unmapped,
             buildings |-> Dedupe(Append(acc.buildings, building)),
             floors |-> Dedupe(Append(acc.floors, ToStr(row.floor))),
             tags |-> Dedupe(acc.tags \o rowTags),
             uniqueIdCounter |-> acc.uniqueIdCounter + 1]

RECURSIVE ProcessRows(_, _)
ProcessRows(acc, data) ==
    IF data = <<>> THEN acc
    ELSE ProcessRows(ProcessRow(acc, Head(data)), Tail(data))

\* a variant of the counter's initial value: every batch numbers its rooms
\* from 0
FirstIdZero(data) == 0

\* the counter's initial value: let uniqueIdCounter = state.processedData.length
FirstId(data) == Len(data)

\* buildingsArray.forEach: a colour for each building that has none
RECURSIVE AssignColors(_, _)
AssignColors(colors, buildingsArray) ==
    IF buildingsArray = <<>> THEN colors
    ELSE LET b == Head(buildingsArray)
             next == IF b \in DOMAIN colors THEN colors
                     ELSE colors @@ (b :> Cardinality(DOMAIN colors))
         IN AssignColors(next, Tail(buildingsArray))

\* { ...state.unmappedAbbreviations, ...unmapped }
SpreadMerge(old, new) ==
    [c \in DOMAIN old \cup DOMAIN new |->
        IF c \in DOMAIN new THEN new[c] ELSE old[c]]

\* Number(s) for a floor label: [nan, v]
IsNumeric(s) == s # <<>> /\ \A i \in 1..Len(s) : IsDigit(s[i])

RECURSIVE DigitsValue(_)
DigitsValue(s) ==
    IF s = <<>> THEN 0
    ELSE 10 * DigitsValue(SubSeq(s, 1, Len(s) - 1))
         + (Code[s[Len(s)]] - Code["0"])

Orderings(S) ==
    {p \in [1..Cardinality(S) -> S] :
        \A i, j \in 1..Cardinality(S) : i # j => p[i] # p[j]}

\* xs.sort((a, b) => Number(a) - Number(b)) on distinct labels: ascending by
\* numeric value, equal values in their original order.  A non-numeric label
\* makes the comparator return NaN (an inconsistent comparator): the order is
\* then implementation-defined, any permutation.
SortFloors(xs) ==
    IF \A i \in 1..Len(xs) : IsNumeric(xs[i])
    THEN {p \in Orderings(Range(xs)) :
            \A i, j \in 1..Len(p) : i < j =>
               \/ DigitsValue(p[i]) < DigitsValue(p[j])
               \/ /\ DigitsValue(p[i]) = DigitsValue(p[j])
                  /\ (CHOOSE k \in 1..Len(xs) : xs[k] = p[i])
                       < (CHOOSE k \in 1..Len(xs) : xs[k] = p[j])}
    ELSE Orderings(Range(xs))

-----------------------------------------------------------------------------
(* Custom (rich) tags *)

Simple == <<"s", "i", "m", "p", "l", "e">>
Blue == <<"b", "l", "u", "e">>

\* createRichTag(name, type, description, link, contact, imageUrl, color) of
\* the utilities script: the record of a rich tag.  The synthetic id and the
\* creation time are not represented; a tag is identified by its position in
\* its room's list.
createRichTag(name, type, description, link, contact, imageUrl, color) ==
    [name |-> name, type |-> type, description |-> description, link |-> link,
     contact |-> contact, imageUrl |-> imageUrl, color |-> color]

\* obj[key] || [] for an annotation map keyed by room id
ListAt(map, key) == IF key \in DOMAIN map THEN map[key] ELSE <<>>

-----------------------------------------------------------------------------
(* Unified tag synthesizer *)

Lit_building == <<"b", "u", "i", "l", "d", "i", "n", "g", ":">>
Lit_floor == <<"f", "l", "o", "o", "r", ":">>
Lit_f == <<"f">>
Lit_level == <<"l", "e", "v", "e", "l", ":">>
Lit_department == <<"d", "e", "p", "a", "r", "t", "m", "e", "n", "t", ":">>
Lit_type == <<"t", "y", "p", "e", ":">>
Lit_category == <<"c", "a", "t", "e", "g", "o", "r", "y", ":">>
Lit_custom == <<"c", "u", "s", "t", "o", "m", ":">>
Lit_tagtype == <<"t", "a", "g", "t", "y", "p", "e", ":">>
Lit_color == <<"c", "o", "l", "o", "r", ":">>
Lit_staff == <<"s", "t", "a", "f", "f", ":">>
Lit_room == <<"r", "o", "o", "m", ":">>
StaffPrefix == <<"S", "t", "a", "f", "f", ":", " ">>

\* words.forEach(word => { if (word.length > n) tags.push(word) })
WordsLonger(words, n) == SelectSeq(words, LAMBDA w : Len(w) > n)

\* the three pushes for a label: label, "prefix:label", its words longer than n
LabelTags(label, prefix, seps, n) ==
    LET l == toLowerCase(label)
    IN <<l, prefix \o l>> \o WordsLonger(split(l, seps), n)

\* the pushes of a forEach in order: the concatenation of the lists pushed
\* for each element
FlatMap(lists) ==
    LET G[i \in 0..Len(lists)] ==
            IF i = 0 THEN <<>> ELSE G[i - 1] \o lists[i]
    IN G[Len(lists)]

\* staffTag.replace('Staff: ', ''): the first occurrence removed
RECURSIVE RemoveFirst(_, _)
RemoveFirst(s, p) ==
    IF Len(s) < Len(p) THEN s
    ELSE IF startsWith(s, p) THEN SubSeq(s, Len(p) + 1, Len(s))
    ELSE <<Head(s)>> \o RemoveFirst(Tail(s), p)

CustomTagTokens(tagObj) ==
    (IF tagObj.name # <<>>
     THEN LabelTags(tagObj.name, Lit_custom, Whitespace, 1) ELSE <<>>)
    \o (IF tagObj.type # <<>>
        THEN <<Lit_tagtype \o toLowerCase(tagObj.type)>> ELSE <<>>)
    \o (IF tagObj.color # <<>>
        THEN <<Lit_color \o toLowerCase(tagObj.color)>> ELSE <<>>)

StaffTagTokens(staffTag) ==
    LET name == toLowerCase(RemoveFirst(staffTag, StaffPrefix))
    IN <<name, Lit_staff \o name>> \o WordsLonger(split(name, Whitespace), 1)

\* createUnifiedTags(room) under the annotation maps ct (custom) and st (staff)
createUnifiedTags(room, ct, st) ==
    LET bld == room.bld_descrshort
        buildingT == IF room.building # <<>>
                     THEN LabelTags(room.building, Lit_building, Whitespace, 1)
                     ELSE <<>>
        shortT == IF Truthy(bld) /\ ToStr(bld) # room.building
                  THEN LabelTags(ToStr(bld), Lit_building, Whitespace, 1)
                  ELSE <<>>
        floorT == IF room.floor.t # "undef" /\ room.floor.t # "null"
                  THEN LET f == ToStr(room.floor)
                       IN <<Lit_floor \o f, Lit_f \o f, Lit_level \o f, f>>
                  ELSE <<>>
        deptT == IF Truthy(room.dept_descr)
                 THEN LabelTags(ToStr(room.dept_descr), Lit_department,
                                Whitespace, 2)
                 ELSE <<>>
        typeT == IF room.typeFull # <<>>
                 THEN LabelTags(room.typeFull, Lit_type,
                                Whitespace \cup {"-", "/"}, 2)
                 ELSE <<>>
        custom == ListAt(ct, room.id)
        staff == ListAt(st, room.id)
        catT == FlatMap([i \in 1..Len(room.tags) |->
                            LabelTags(room.tags[i], Lit_category,
                                      Whitespace \cup {"-"}, 2)])
        customT == FlatMap([i \in 1..Len(custom) |->
                               CustomTagTokens(custom[i])])
        staffT == FlatMap([i \in 1..Len(staff) |-> StaffTagTokens(staff[i])])
        roomT == IF Truthy(room.rmnbr)
                 THEN LET r == toLowerCase(ToStr(room.rmnbr))
                      IN <<r, Lit_room \o r>>
                 ELSE <<>>
    IN Dedupe(buildingT \o shortT \o floorT \o deptT \o typeT \o catT
              \o customT \o staffT \o roomT)

-----------------------------------------------------------------------------
(* Query evaluator *)

\* searchQuery.toLowerCase().split(/[\s,]+/).map(trim).filter(nonempty)
SearchTerms(query) ==
    LET pieces == split(toLowerCase(query), Whitespace \cup {","})
        trimmed == [i \in 1..Len(pieces) |-> trim(pieces[i])]
    IN SelectSeq(trimmed, LAMBDA term : Len(term) > 0)

\* a variant of the callback: a tag that starts with the term matches,
\* whatever the term's length
TagMatchesAnyPrefix(tag, searchTerm, roomTags) ==
    \/ startsWith(tag, searchTerm)
    \/ (Len(searchTerm) >= 3 /\ includes(tag, searchTerm))

\* the callback of roomTags.some for one tag
TagMatches(tag, searchTerm, roomTags) ==
    \/ tag = searchTerm
    \/ /\ startsWith(tag, searchTerm)
       /\ (Len(searchTerm) >= 2 \/ IsDigit(searchTerm[1]))
    \/ (Len(searchTerm) >= 3 /\ includes(tag, searchTerm))
    \/ /\ (includes(searchTerm, <<"-">>) \/ includes(searchTerm, <<" ">>))
       /\ LET searchWords == split(searchTerm, Whitespace \cup {"-"})
          IN \A k \in 1..Len(searchWords) :
                /\ Len(searchWords[k]) > 1
                /\ \E j \in 1..Len(roomTags) :
                      includes(roomTags[j], searchWords[k])

\* roomTags.some(tag => ...)
TermMatches(searchTerm, roomTags) ==
    \E i \in 1..Len(roomTags) : TagMatches(roomTags[i], searchTerm, roomTags)

\* a variant of the filter callback: searchTerms.some instead of
\* searchTerms.every
RoomMatchesSomeTerm(room, searchTerms, ct, st) ==
    LET roomTags == createUnifiedTags(room, ct, st)
    IN \E i \in 1..Len(searchTerms) : TermMatches(searchTerms[i], roomTags)

\* the callback of state.processedData.filter
RoomMatches(room, searchTerms, ct, st) ==
    LET roomTags == createUnifiedTags(room, ct, st)
    IN \A i \in 1..Len(searchTerms) : TermMatches(searchTerms[i], roomTags)

\* a variant of searchRoomsByTags: a query of which no term survives finds
\* no room
searchRoomsByTagsNoTerm(query, data, ct, st) ==
    IF query = <<>> \/ Len(data) = 0 THEN data
    ELSE LET searchTerms == SearchTerms(query)
         IN IF Len(searchTerms) = 0 THEN <<>>
            ELSE SelectSeq(data,
                           LAMBDA room : RoomMatches(room, searchTerms, ct, st))

\* searchRoomsByTags(searchQuery) over the dataset data
searchRoomsByTags(query, data, ct, st) ==
    IF query = <<>> \/ Len(data) = 0 THEN data
    ELSE LET searchTerms == SearchTerms(query)
         IN IF Len(searchTerms) = 0 THEN data
            ELSE SelectSeq(data,
                           LAMBDA room : RoomMatches(room, searchTerms, ct, st))

\* [a, ...bs].filter(Boolean).join(' ')
RECURSIVE JoinSpace(_)
JoinSpace(parts) ==
    IF parts = <<>> THEN <<>>
    ELSE IF Len(parts) = 1 THEN parts[1]
    ELSE parts[1] \o <<" ">> \o JoinSpace(Tail(parts))

CombinedQuery(query, tags) ==
    JoinSpace(SelectSeq(<<query>> \o tags, LAMBDA x : x # <<>>))

\* data_getFilteredData(): the list it returns and stores
data_getFilteredData(query, filters, data, ct, st) ==
    LET r0 == searchRoomsByTags(query, data, ct, st)
        r1 == IF filters.building # <<>>
              THEN SelectSeq(r0, LAMBDA r : r.building = filters.building)
              ELSE r0
        r2 == IF filters.floor # <<>>
              THEN SelectSeq(r1, LAMBDA r : ToStr(r.floor) = filters.floor)
              ELSE r1
    IN IF Len(filters.tags) > 0
       THEN searchRoomsByTags(CombinedQuery(query, filters.tags), data, ct, st)
       ELSE r2

-----------------------------------------------------------------------------
(* Search index and autocomplete vocabulary *)

limit == 5000

\* const [prefix, value] = tag.split(':', 2): the text between the first colon
\* and the second one (or the end)
RECURSIVE UpToColon(_)
UpToColon(s) ==
    IF s = <<>> \/ Head(s) = ":" THEN <<>>
    ELSE <<Head(s)>> \o UpToColon(Tail(s))

ValueOf(tag) ==
    LET i == CHOOSE k \in 1..Len(tag) :
                 tag[k] = ":" /\ \A j \in 1..(k - 1) : tag[j] # ":"
    IN UpToColon(SubSeq(tag, i + 1, Len(tag)))

\* the callback of tags.forEach in buildUnifiedAutocomplete, up to cap entries
AddSuggestion(suggestions, tag, cap) ==
    IF Cardinality(suggestions) < cap
    THEN IF includes(tag, <<":">>)
         THEN suggestions \cup {tag, ValueOf(tag)}
         ELSE suggestions \cup {tag}
    ELSE suggestions

RECURSIVE AddSuggestions(_, _, _)
AddSuggestions(suggestions, tags, cap) ==
    IF tags = <<>> THEN suggestions
    ELSE AddSuggestions(AddSuggestion(suggestions, Head(tags), cap),
                        Tail(tags), cap)

\* the callback of state.processedData.forEach in buildUnifiedAutocomplete
AddRoomSuggestions(suggestions, room, ct, st, cap) ==
    IF Cardinality(suggestions) >= cap THEN suggestions
    ELSE LET withTags == AddSuggestions(suggestions,
                                        createUnifiedTags(room, ct, st), cap)
         IN IF Truthy(room.rmnbr) /\ Cardinality(withTags) < cap
            THEN withTags \cup {ToStr(room.rmnbr)}
            ELSE withTags

RECURSIVE SuggestionsOf(_, _, _, _, _)
SuggestionsOf(suggestions, data, ct, st, cap) ==
    IF data = <<>> THEN suggestions
    ELSE SuggestionsOf(AddRoomSuggestions(suggestions, Head(data), ct, st, cap),
                       Tail(data), ct, st, cap)

\* buildUnifiedAutocomplete(): the sorted suggestion list
buildUnifiedAutocomplete(data, ct, st) ==
    SortStrings(SuggestionsOf({}, data, ct, st, limit))

\* dataForIndex of createSearchIndex: what the Fuse index is built over
IndexDocument(r, ct, st) ==
    [id |-> r.id,
     unifiedTags |-> JoinSpace(createUnifiedTags(r, ct, st)),
     rmnbrStr |-> IF Truthy(r.rmnbr) THEN ToStr(r.rmnbr) ELSE <<>>]

\* createSearchIndex() run over the dataset data and the maps ct and st:
\* state.fuse (the documents of the index, Null for no index) and
\* state.autocompleteItems after the call
createSearchIndex(data, ct, st) ==
    [fuse |-> IF Len(data) = 0 THEN Null
              ELSE [i \in 1..Len(data) |-> IndexDocument(data[i], ct, st)],
     autocompleteItems |-> buildUnifiedAutocomplete(data, ct, st)]

-----------------------------------------------------------------------------
(* Bounds and input pools *)

MaxRooms == 2       \* rooms in the dataset
MaxLoaded == 3      \* records in state.loadedFiles
MaxCap == 4         \* the caps under which the suggestion list is examined

S_UH == <<"U", "H">>
S_CV == <<"C", "V">>
S_OR == <<"O", "R">>
S_XR == <<"X", "R">>
S_Lab == <<"L", "a", "b">>
S_icu == <<"i", "c", "u">>
S_ICU == <<"I", "C", "U">>
S_Al == <<"A", "l">>
S_um_session == <<"u", "m", "_", "s", "e", "s", "s", "i", "o", "n">>

\* spreadsheet rows: two rooms with the same room number in two buildings,
\* and a row without room number
RowA == Row(Num(12), Num(1), Str(S_UH), Str(S_OR), Undef, Str(S_Lab), Num(7))
RowB == Row(Num(12), Num(2), Str(S_CV), Str(S_XR), Null, Str(S_Lab), Num(8))
RowNoNumber == Row(Undef, Num(1), Str(S_UH), Str(S_OR), Undef, Undef, Num(9))

\* the spreadsheets at hand: one room, the other room, both rooms, and a
\* sheet whose first row has no room number
RoomBatches ==
    {<<RowA>>, <<RowB>>, <<RowA, RowB>>, <<RowNoNumber, RowB>>}

\* the spreadsheet merged by the sessions that only annotate
BothRooms == {<<RowA, RowB>>}

\* occupant rows
Occupant(rec, name) == [rmrecnbr |-> rec, person_name |-> name]

\* the occupant sheets at hand: a name for the room of record 7; a name with
\* leading blank for the room of record 8 and a row without name
OccupantBatches ==
    {<<Occupant(Num(7), Str(S_Al))>>,
     <<Occupant(Num(8), Str(<<" ">> \o S_Al)), Occupant(Num(7), Undef)>>}

\* the tag names that occur, typed in or read from a tags file
TagNames == {S_icu, S_ICU}

RoomIds == 0..(MaxRooms - 1)

\* the tag name typed in the modal
FirstTagNames == {S_icu}

-----------------------------------------------------------------------------
(* Initial state: the store of the state script before any file is loaded *)

DefaultFilters == [building |-> <<>>, floor |-> <<>>, tags |-> <<>>]
DefaultResultsPerPage == 10
NoDownload == [kind |-> "none", content |-> <<>>]
NothingExported == [done |-> FALSE]
\* handleFiles is not running
Idle == [active |-> FALSE]
\* a record of state.loadedFiles (the name, the row count and the message
\* of the record are not represented)
Outcome(type, status) == [type |-> type, status |-> status]
ModalClosed == [open |-> FALSE, id |-> 0]
NotIndexed ==
    [built |-> FALSE, processedData |-> <<>>, customTags |-> <<>>,
     staffTags |-> <<>>]

Init ==
    /\ processedData = <<>>
    /\ dataIsArray = TRUE
    /\ customTags = <<>>
    /\ staffTags = <<>>
    /\ buildingColors = <<>>
    /\ unmappedAbbreviations = <<>>
    /\ availableBuildings = <<>>
    /\ availableFloors = <<>>
    /\ availableTags = <<>>
    /\ activeFilters = DefaultFilters
    /\ searchQuery = <<>>
    /\ currentViewMode = "desktop"
    /\ resultsPerPage = DefaultResultsPerPage
    /\ currentFilteredData = <<>>
    /\ indexed = NotIndexed
    /\ currentRoomIdForModal = ModalClosed
    /\ download = NoDownload
    /\ exported = NothingExported
    /\ loadedFiles = <<>>
    /\ assignedIds = {}
    /\ batch = Idle

\* the variables in groups, for UNCHANGED
datasetVars == <<processedData, dataIsArray>>
facetVars == <<availableBuildings, availableFloors, availableTags>>
viewVars == <<activeFilters, searchQuery, currentViewMode, resultsPerPage>>
indexVars == <<indexed>>
fileVars == <<download, exported, loadedFiles, assignedIds>>

\* await createSearchIndex() on the state after the step
RebuildIndex ==
    indexed' = [built |-> TRUE, processedData |-> processedData',
                customTags |-> customTags', staffTags |-> staffTags']

\* state.fuse
fuse ==
    IF indexed.built
    THEN createSearchIndex(indexed.processedData, indexed.customTags,
                           indexed.staffTags).fuse
    ELSE Null

\* state.autocompleteItems
autocompleteItems ==
    IF indexed.built
    THEN createSearchIndex(indexed.processedData, indexed.customTags,
                           indexed.staffTags).autocompleteItems
    ELSE <<>>

-----------------------------------------------------------------------------
(* processRoomData(data) *)

EmptyBatchLocals(firstId) ==
    [processed |-> <<>>, unmapped |-> <<>>, buildings |-> <<>>,
     floors |-> <<>>, tags |-> <<>>, uniqueIdCounter |-> firstId]

processRoomData(data) ==
    LET acc == ProcessRows(EmptyBatchLocals(FirstId(processedData)), data)
    IN /\ Len(processedData) + Len(acc.processed) <= MaxRooms
       /\ buildingColors' = AssignColors(buildingColors, acc.buildings)
       /\ IF dataIsArray
          THEN /\ processedData' = processedData \o acc.processed
               /\ unmappedAbbreviations' =
                      SpreadMerge(unmappedAbbreviations, acc.unmapped)
               /\ availableBuildings' =
                      SortStrings(Range(availableBuildings) \cup Range(acc.buildings))
               /\ availableFloors' \in
                      SortFloors(Dedupe(availableFloors \o acc.floors))
               /\ availableTags' =
                      SortStrings(Range(availableTags) \cup Range(acc.tags))
               /\ assignedIds' = assignedIds \cup
                      {acc.processed[i].id : i \in 1..Len(acc.processed)}
               /\ UNCHANGED <<dataIsArray, customTags, staffTags>>
               /\ RebuildIndex
          ELSE \* state.processedData.concat is not a function: the handler
               \* throws after the colours were assigned
               UNCHANGED <<datasetVars, customTags, staffTags,
                           unmappedAbbreviations, facetVars, indexVars,
                           assignedIds>>
       /\ UNCHANGED <<viewVars, currentFilteredData, currentRoomIdForModal,
                      download, exported, loadedFiles>>

-----------------------------------------------------------------------------
(* processOccupantData(data) *)

\* state.processedData.find(pred), given the set of the indexes that satisfy
\* pred: the first of them, 0 for none
First(matches) ==
    IF matches = {} THEN 0
    ELSE CHOOSE i \in matches : \A j \in matches : i <= j

\* one iteration of data.forEach in processOccupantData
AddOccupant(st, occ, data) ==
    IF ~Truthy(occ.rmrecnbr) \/ ~Truthy(occ.person_name) THEN st
    ELSE LET i == First({k \in 1..Len(data) :
                            ToStr(data[k].rmrecnbr) = ToStr(occ.rmrecnbr)})
         IN IF i = 0 THEN st
            ELSE LET id == data[i].id
                     staffTag == StaffPrefix \o trim(ToStr(occ.person_name))
                     old == ListAt(st, id)
                     new == IF staffTag \in Range(old) THEN old
                            ELSE Append(old, staffTag)
                 IN [k \in DOMAIN st \cup {id} |->
                        IF k = id THEN new ELSE st[k]]

RECURSIVE AddOccupants(_, _, _)
AddOccupants(st, occs, data) ==
    IF occs = <<>> THEN st
    ELSE AddOccupants(AddOccupant(st, Head(occs), data), Tail(occs), data)

processOccupantData(data) ==
    /\ dataIsArray   \* otherwise find / map throw before any change
    /\ staffTags' = AddOccupants(staffTags, data, processedData)
    /\ UNCHANGED <<datasetVars, customTags, buildingColors,
                   unmappedAbbreviations, facetVars, viewVars,
                   currentFilteredData, currentRoomIdForModal, fileVars>>
    /\ RebuildIndex

-----------------------------------------------------------------------------
(* The tag modal of app.js *)

HasRoomWithId(data, roomId) == \E i \in 1..Len(data) : data[i].id = roomId

\* handleAddTagClick(roomId): the modal opens for a room of the dataset or of
\* the current filtered view
handleAddTagClick(roomId) ==
    /\ dataIsArray   \* otherwise find throws
    /\ (HasRoomWithId(processedData, roomId)
        \/ HasRoomWithId(currentFilteredData, roomId))
    /\ currentRoomIdForModal' = [open |-> TRUE, id |-> roomId]
    /\ UNCHANGED <<datasetVars, customTags, staffTags, buildingColors,
                   unmappedAbbreviations, facetVars, viewVars,
                   currentFilteredData, indexVars, fileVars>>

\* closeTagModal()
closeTagModal ==
    /\ currentRoomIdForModal.open
    /\ currentRoomIdForModal' = ModalClosed
    /\ UNCHANGED <<datasetVars, customTags, staffTags, buildingColors,
                   unmappedAbbreviations, facetVars, viewVars,
                   currentFilteredData, indexVars, fileVars>>

\* tags.some(tag => tag.name.toLowerCase() === name.toLowerCase())
HasNameIgnoringCase(tags, name) ==
    \E i \in 1..Len(tags) : toLowerCase(tags[i].name) = toLowerCase(name)

\* state.customTags after addRichTagFromModal with the trimmed name typed in
AddTagFromModal(ct, roomId, name) ==
    LET old == ListAt(ct, roomId)
        newRichTag == createRichTag(name, Simple, <<>>, <<>>, <<>>, <<>>, Blue)
        new == IF HasNameIgnoringCase(old, newRichTag.name) THEN old
               ELSE Append(old, newRichTag)
    IN [k \in DOMAIN ct \cup {roomId} |-> IF k = roomId THEN new ELSE ct[k]]

\* addRichTagFromModal(): the add button or Enter in the name field
addRichTagFromModal(input) ==
    /\ currentRoomIdForModal.open
    /\ trim(input) # <<>>
    /\ customTags' = AddTagFromModal(customTags, currentRoomIdForModal.id,
                                     trim(input))
    /\ UNCHANGED <<datasetVars, staffTags, buildingColors,
                   unmappedAbbreviations, facetVars, viewVars,
                   currentFilteredData, indexVars, currentRoomIdForModal,
                   fileVars>>

\* xs.filter((t, i) => i !== k)
RemoveAt(xs, k) == SubSeq(xs, 1, k - 1) \o SubSeq(xs, k + 1, Len(xs))

\* the remove-custom-tag click on the k-th tag listed in the modal
removeCustomTag(k) ==
    /\ currentRoomIdForModal.open
    /\ k \in 1..Len(ListAt(customTags, currentRoomIdForModal.id))
    /\ customTags' = [customTags EXCEPT ![currentRoomIdForModal.id] =
                         RemoveAt(@, k)]
    /\ UNCHANGED <<datasetVars, staffTags, buildingColors,
                   unmappedAbbreviations, facetVars, viewVars,
                   currentFilteredData, indexVars, currentRoomIdForModal,
                   fileVars>>

\* saveCustomTagsFromModal(): close, then rebuild the index (the refresh of
\* the results view that follows belongs to the view script)
saveCustomTagsFromModal ==
    /\ currentRoomIdForModal.open
    /\ currentRoomIdForModal' = ModalClosed
    /\ UNCHANGED <<datasetVars, customTags, staffTags, buildingColors,
                   unmappedAbbreviations, facetVars, viewVars,
                   currentFilteredData, fileVars>>
    /\ IF dataIsArray THEN RebuildIndex
       ELSE UNCHANGED indexVars   \* createSearchIndex throws

-----------------------------------------------------------------------------
(* Custom-tag export document and exportCustomTags() *)

\* an entry of a room's tag list in a tags document: a plain string, a rich
\* tag object, or null
StringEntry(name) ==
    [kind |-> "string",
     tag |-> createRichTag(name, Simple, <<>>, <<>>, <<>>, <<>>, Blue)]
ObjectEntry(tag) == [kind |-> "object", tag |-> tag]
NullEntry ==
    [kind |-> "null",
     tag |-> createRichTag(<<>>, <<>>, <<>>, <<>>, <<>>, <<>>, <<>>)]

\* a roomReference entry
RoomRef(rmnbr, typeFullLabel, rmrecnbr, building) ==
    [rmnbr |-> rmnbr, typeFull |-> typeFullLabel, rmrecnbr |-> rmrecnbr,
     building |-> building]

\* a tags file: text that may not parse, a document that may lack customTags
\* and roomReference
TagsFile(parses, hasCustomTags, tags, hasRoomReference, refs) ==
    [parses |-> parses, hasCustomTags |-> hasCustomTags, customTags |-> tags,
     hasRoomReference |-> hasRoomReference, roomReference |-> refs]

\* a variant of the export condition: the length of the tag list is not
\* tested
ExportableKeysAnyList(data, ct) ==
    {roomId \in DOMAIN ct : HasRoomWithId(data, roomId)}

\* the keys for which exportCustomTags adds an entry
ExportableKeys(data, ct) ==
    {roomId \in DOMAIN ct :
        HasRoomWithId(data, roomId) /\ Len(ct[roomId]) > 0}

RoomWithId(data, roomId) ==
    data[First({k \in 1..Len(data) : data[k].id = roomId})]

\* exportData of exportCustomTags after the forEach, as JSON.stringify writes it
ExportData(data, ct) ==
    LET keys == ExportableKeys(data, ct)
    IN TagsFile(TRUE, TRUE,
                [k \in keys |->
                    [i \in 1..Len(ct[k]) |-> ObjectEntry(ct[k][i])]],
                TRUE,
                [k \in keys |->
                    LET room == RoomWithId(data, k)
                    IN RoomRef(room.rmnbr, room.typeFull, room.rmrecnbr,
                               room.bld_descrshort)])

\* exportCustomTags(): a document is downloaded unless there is nothing to export
exportCustomTags ==
    /\ dataIsArray   \* otherwise find throws (or there are no tags at all)
    /\ IF DOMAIN customTags = {} THEN UNCHANGED download
       ELSE LET exportData == ExportData(processedData, customTags)
            IN IF DOMAIN exportData.customTags = {} THEN UNCHANGED download
               ELSE download' = [kind |-> "tags", content |-> exportData]
    /\ UNCHANGED <<datasetVars, customTags, staffTags, buildingColors,
                   unmappedAbbreviations, facetVars, viewVars,
                   currentFilteredData, indexVars, currentRoomIdForModal,
                   exported, loadedFiles, assignedIds>>

-----------------------------------------------------------------------------
(* importCustomTags(file) *)

\* a variant of the resolution: the key of the file is tried before the
\* record number of the reference block
ResolveTargetIdFirst(data, roomIdFromFile, hasRef, roomRef) ==
    LET byId == First({k \in 1..Len(data) : data[k].id = roomIdFromFile})
        byRecord == IF hasRef /\ Truthy(roomRef.rmrecnbr)
                    THEN First({k \in 1..Len(data) :
                             ToStr(data[k].rmrecnbr) = ToStr(roomRef.rmrecnbr)})
                    ELSE 0
        byNumberAndBuilding ==
            IF hasRef /\ Truthy(roomRef.rmnbr) /\ Truthy(roomRef.building)
            THEN First({k \in 1..Len(data) :
                     /\ data[k].rmnbr = roomRef.rmnbr
                     /\ (data[k].bld_descrshort = roomRef.building
                         \/ Str(data[k].building) = roomRef.building)})
            ELSE 0
        byNumber == IF hasRef /\ Truthy(roomRef.rmnbr)
                    THEN First({k \in 1..Len(data) :
                                   data[k].rmnbr = roomRef.rmnbr})
                    ELSE 0
    IN IF byId # 0 THEN byId
       ELSE IF byRecord # 0 THEN byRecord
       ELSE IF byNumberAndBuilding # 0 THEN byNumberAndBuilding
       ELSE byNumber

\* the target room of a room entry: its index in the dataset, 0 for none
ResolveTarget(data, roomIdFromFile, hasRef, roomRef) ==
    LET byRecord == IF hasRef /\ Truthy(roomRef.rmrecnbr)
                    THEN First({k \in 1..Len(data) :
                             ToStr(data[k].rmrecnbr) = ToStr(roomRef.rmrecnbr)})
                    ELSE 0
        byId == First({k \in 1..Len(data) : data[k].id = roomIdFromFile})
        byNumberAndBuilding ==
            IF hasRef /\ Truthy(roomRef.rmnbr) /\ Truthy(roomRef.building)
            THEN First({k \in 1..Len(data) :
                     /\ data[k].rmnbr = roomRef.rmnbr
                     /\ (data[k].bld_descrshort = roomRef.building
                         \/ Str(data[k].building) = roomRef.building)})
            ELSE 0
        byNumber == IF hasRef /\ Truthy(roomRef.rmnbr)
                    THEN First({k \in 1..Len(data) :
                                   data[k].rmnbr = roomRef.rmnbr})
                    ELSE 0
    IN IF byRecord # 0 THEN byRecord
       ELSE IF byId # 0 THEN byId
       ELSE IF byNumberAndBuilding # 0 THEN byNumberAndBuilding
       ELSE byNumber

\* existingTag.name === richTagObject.name for some existing tag
HasName(tags, name) == \E i \in 1..Len(tags) : tags[i].name = name

\* one iteration of tagsToImport.forEach; acc = [ct, imported, skipped, thrown]
ImportEntry(acc, targetId, entry) ==
    IF acc.thrown THEN acc
    ELSE IF entry.kind = "null"
    THEN [acc EXCEPT !.thrown = TRUE]   \* tagFromFile.name of null
    ELSE IF HasName(acc.ct[targetId], entry.tag.name) THEN acc
    ELSE [acc EXCEPT !.ct[targetId] = Append(@, entry.tag),
                     !.imported = @ + 1]

RECURSIVE ImportEntries(_, _, _)
ImportEntries(acc, targetId, entries) ==
    IF entries = <<>> THEN acc
    ELSE ImportEntries(ImportEntry(acc, targetId, Head(entries)), targetId,
                       Tail(entries))

\* one iteration of Object.keys(importData.customTags).forEach
ImportRoomEntry(acc, file, roomIdFromFile, data) ==
    LET tagsToImport == file.customTags[roomIdFromFile]
        hasRef == file.hasRoomReference
                  /\ roomIdFromFile \in DOMAIN file.roomReference
        roomRef == IF hasRef THEN file.roomReference[roomIdFromFile]
                   ELSE RoomRef(Undef, <<>>, Undef, Undef)
        target == ResolveTarget(data, roomIdFromFile, hasRef, roomRef)
    IN IF acc.thrown \/ Len(tagsToImport) = 0 THEN acc
       ELSE IF target = 0 THEN [acc EXCEPT !.skipped = @ + 1]
       ELSE LET id == data[target].id
                withList == [acc EXCEPT !.ct =
                                [k \in DOMAIN acc.ct \cup {id} |->
                                    ListAt(acc.ct, k)]]
            IN ImportEntries(withList, id, tagsToImport)

\* the keys of the document in Object.keys order (integer keys ascending)
RECURSIVE ImportRoomEntries(_, _, _, _)
ImportRoomEntries(acc, file, keys, data) ==
    IF keys = {} THEN acc
    ELSE LET k == CHOOSE x \in keys : \A y \in keys : x <= y
         IN ImportRoomEntries(ImportRoomEntry(acc, file, k, data), file,
                              keys \ {k}, data)

\* the outcome of the try block of importCustomTags
ImportTagsResult(file, data, ct) ==
    IF ~file.parses \/ ~file.hasCustomTags
    THEN [ct |-> ct, imported |-> 0, skipped |-> 0, thrown |-> TRUE]
    ELSE ImportRoomEntries(
             [ct |-> ct, imported |-> 0, skipped |-> 0, thrown |-> FALSE],
             file, DOMAIN file.customTags, data)

importCustomTags(file) ==
    LET res == ImportTagsResult(file, processedData, customTags)
    IN /\ dataIsArray   \* otherwise find / map throw before any change
       /\ UNCHANGED <<datasetVars, staffTags, buildingColors,
                      unmappedAbbreviations, facetVars, viewVars,
                      currentFilteredData, currentRoomIdForModal, fileVars>>
       /\ customTags' = res.ct
       /\ IF res.thrown THEN UNCHANGED indexVars ELSE RebuildIndex

-----------------------------------------------------------------------------
(* Session document: exportSession() *)

RoomCellFields ==
    {"rmnbr", "floor", "bld_descrshort", "rmtyp_descrshort",
     "rmsubtyp_descrshort", "dept_descr", "rmrecnbr"}
RoomDerivedFields == {"id", "typeFull", "tags", "building"}

\* a variant of the serialization of a room: null cells are left out like
\* undefined ones
JsonOfRoomDroppingNull(room) ==
    [f \in {g \in RoomCellFields :
                room[g].t # "undef" /\ room[g].t # "null"}
            \cup RoomDerivedFields
        |-> room[f]]

\* JSON.stringify of a room: properties whose value is undefined are left out
JsonOfRoom(room) ==
    [f \in {g \in RoomCellFields : room[g].t # "undef"} \cup RoomDerivedFields
        |-> room[f]]

\* a parsed room object read through property access: an absent cell reads
\* as undefined
RoomOfJson(json) ==
    [f \in RoomCellFields \cup RoomDerivedFields |->
        IF f \in DOMAIN json THEN json[f] ELSE Undef]

DataFields ==
    {"processedData", "customTags", "staffTags", "buildingColors",
     "activeFilters", "searchQuery", "currentViewMode", "resultsPerPage"}

\* the data block of a session document; present names the fields it has
SessionData(present, isArray, rooms, ct, st, colors, filters, query, mode, perPage) ==
    [present |-> present,
     processedData |-> [isArray |-> isArray, items |-> rooms],
     customTags |-> ct, staffTags |-> st, buildingColors |-> colors,
     activeFilters |-> filters, searchQuery |-> query,
     currentViewMode |-> mode, resultsPerPage |-> perPage]

EmptySessionData ==
    SessionData({}, TRUE, <<>>, <<>>, <<>>, <<>>, DefaultFilters, <<>>, "", 0)

\* a .umsess file: base64 text (or not), holding JSON (or not), the document's
\* type tag (<<>> when absent) and its data block (if any)
SessionFile(isBase64, isJson, type, hasData, data) ==
    [isBase64 |-> isBase64, isJson |-> isJson, type |-> type,
     hasData |-> hasData, data |-> data]

\* btoa(unescape(encodeURIComponent(JSON.stringify(sessionData)))) for the
\* sessionData that exportSession builds from the given state
EncodeSessionOf(rooms, isArray, ct, st, colors, filters, query, mode, perPage) ==
    SessionFile(TRUE, TRUE, S_um_session, TRUE,
        SessionData(DataFields, isArray,
                    [i \in 1..Len(rooms) |-> JsonOfRoom(rooms[i])],
                    ct, st, colors, filters, query, mode, perPage))

EncodeSession ==
    EncodeSessionOf(processedData, dataIsArray, customTags, staffTags,
                    buildingColors, activeFilters, searchQuery,
                    currentViewMode, resultsPerPage)

\* exportSession(): nothing is downloaded when there is no session data
exportSession ==
    /\ ~(dataIsArray /\ Len(processedData) = 0 /\ DOMAIN customTags = {})
    /\ download' = [kind |-> "session", content |-> EncodeSession]
    /\ exported' = [done |-> TRUE,
                    processedData |-> processedData,
                    customTags |-> customTags,
                    staffTags |-> staffTags,
                    availableBuildings |-> Range(availableBuildings),
                    availableFloors |-> Range(availableFloors),
                    availableTags |-> Range(availableTags)]
    /\ UNCHANGED <<datasetVars, customTags, staffTags, buildingColors,
                   unmappedAbbreviations, facetVars, viewVars,
                   currentFilteredData, indexVars, currentRoomIdForModal,
                   loadedFiles, assignedIds>>

-----------------------------------------------------------------------------
(* importSession(file) *)

S_Unknown == <<"U", "n", "k", "n", "o", "w", "n">>
S_NA == <<"N", "/", "A">>

\* the try block throws before the first assignment to the state
ImportThrowsEarly(file) ==
    \/ ~file.isBase64                 \* atob
    \/ ~file.isJson                   \* JSON.parse
    \/ file.type # S_um_session       \* the type tag
    \/ ~file.hasData                  \* sessionData.data.processedData

\* sessionData.data.f || fallback, for an object-valued field (always truthy)
ObjectOr(data, f, fallback) ==
    IF f \in data.present THEN data[f] ELSE fallback

\* sessionData.data.f || fallback, for a string or number field
ScalarOr(data, f, fallback, falsy) ==
    IF f \in data.present /\ data[f] # falsy THEN data[f] ELSE fallback

\* a variant of the building of a restored room: the fallback label is
\* always taken
ImportBuildingUnknown(r) == S_Unknown

\* r.building || r.bld_descrshort || 'Unknown'
ImportBuilding(r) ==
    IF r.building # <<>> THEN r.building
    ELSE IF Truthy(r.bld_descrshort) THEN ToStr(r.bld_descrshort)
    ELSE S_Unknown

\* the floor label of a restored room
ImportFloor(r) ==
    IF r.floor.t # "null" /\ r.floor.t # "undef" THEN ToStr(r.floor) ELSE S_NA

\* xs.sort((a, b) => a === 'N/A' ? 1 : b === 'N/A' ? -1 : Number(a) - Number(b))
SortFloorsNA(xs) ==
    LET rest == SelectSeq(xs, LAMBDA x : x # S_NA)
        last == SelectSeq(xs, LAMBDA x : x = S_NA)
    IN {p \o last : p \in SortFloors(rest)}

\* the call ends in the catch block: thrown early, or thrown by
\* state.processedData.map when the restored processedData is not a list
importSessionThrows(file) ==
    \/ ImportThrowsEarly(file)
    \/ /\ "processedData" \in file.data.present
       /\ ~file.data.processedData.isArray

importSession(file) ==
    IF ImportThrowsEarly(file) THEN UNCHANGED storeVars
    ELSE LET data == file.data
             list == IF "processedData" \in data.present
                     THEN data.processedData
                     ELSE [isArray |-> TRUE, items |-> <<>>]
             rooms == [i \in 1..Len(list.items) |-> RoomOfJson(list.items[i])]
         IN /\ processedData' = rooms
            /\ dataIsArray' = list.isArray
            /\ customTags' = ObjectOr(data, "customTags", <<>>)
            /\ staffTags' = ObjectOr(data, "staffTags", <<>>)
            /\ buildingColors' = ObjectOr(data, "buildingColors", <<>>)
            /\ activeFilters' = ObjectOr(data, "activeFilters", DefaultFilters)
            /\ searchQuery' = ScalarOr(data, "searchQuery", <<>>, <<>>)
            /\ currentViewMode' = ScalarOr(data, "currentViewMode", "desktop", "")
            /\ resultsPerPage' =
                   ScalarOr(data, "resultsPerPage", DefaultResultsPerPage, 0)
            /\ UNCHANGED <<unmappedAbbreviations, currentFilteredData,
                           currentRoomIdForModal, download, exported,
                           assignedIds>>
            /\ IF list.isArray
               THEN /\ availableBuildings' =
                           SortStrings({ImportBuilding(rooms[i]) :
                                           i \in 1..Len(rooms)})
                    /\ availableFloors' \in
                           SortFloorsNA(Dedupe([i \in 1..Len(rooms) |->
                                                   ImportFloor(rooms[i])]))
                    /\ availableTags' =
                           SortStrings(UNION {Range(rooms[i].tags) :
                                                 i \in 1..Len(rooms)})
                    /\ Len(loadedFiles) < MaxLoaded
                    /\ loadedFiles' = Append(loadedFiles, Outcome("session", "processed"))
                    /\ RebuildIndex
               ELSE \* state.processedData.map is not a function: thrown
                    \* after the state was replaced
                    UNCHANGED <<facetVars, indexVars, loadedFiles>>

-----------------------------------------------------------------------------
(* Files the user may drop *)

RichTag(name) == createRichTag(name, Simple, <<>>, <<>>, <<>>, <<>>, Blue)
S_ZZ == <<"Z", "Z">>
NoRefs == <<>>
\* a key of a tags document that is the id of no room
OtherKey == MaxRooms + 3

\* a rich tag as another session wrote it
S_red == <<"r", "e", "d">>
RedTag == createRichTag(S_ICU, Simple, <<>>, <<>>, <<>>, <<>>, S_red)

\* a tags file whose key is the id of the second room and whose reference
\* block has the record number of the first
ByRecordFile ==
    TagsFile(TRUE, TRUE, (1 :> <<ObjectEntry(RedTag)>>), TRUE,
             (1 :> RoomRef(Num(12), <<>>, Num(7), Str(S_UH))))

\* tags files written by hand or exported from another session
UserTagsFiles ==
    { \* raw id match, no reference block
      TagsFile(TRUE, TRUE, (0 :> <<StringEntry(S_icu)>>), FALSE, NoRefs),
      \* the key is the id of one room, the record number that of another
      ByRecordFile,
      \* resolved by room number and building
      TagsFile(TRUE, TRUE, (OtherKey :> <<StringEntry(S_icu)>>), TRUE,
               (OtherKey :> RoomRef(Num(12), <<>>, Undef, Str(S_CV)))),
      \* resolved by room number alone
      TagsFile(TRUE, TRUE, (OtherKey :> <<StringEntry(S_ICU)>>), TRUE,
               (OtherKey :> RoomRef(Num(12), <<>>, Num(9), Str(S_ZZ)))),
      \* no room: skipped
      TagsFile(TRUE, TRUE, (OtherKey :> <<StringEntry(S_icu)>>), FALSE, NoRefs),
      \* a null entry after a valid one
      TagsFile(TRUE, TRUE, (0 :> <<StringEntry(S_ICU), NullEntry>>), FALSE, NoRefs),
      \* an empty list
      TagsFile(TRUE, TRUE, (0 :> <<>>), FALSE, NoRefs),
      \* no customTags field; not JSON
      TagsFile(TRUE, FALSE, <<>>, FALSE, NoRefs),
      TagsFile(FALSE, FALSE, <<>>, FALSE, NoRefs) }

\* the tags files at hand: the user's and the last one downloaded
TagsFiles ==
    UserTagsFiles \cup
    (IF download.kind = "tags" THEN {download.content} ELSE {})

S_other == <<"o", "t", "h", "e", "r">>

\* session files that importSession rejects before touching the state
RejectedSessionFiles ==
    { SessionFile(FALSE, FALSE, <<>>, FALSE, EmptySessionData),
      SessionFile(TRUE, FALSE, <<>>, FALSE, EmptySessionData),
      SessionFile(TRUE, TRUE, <<>>, TRUE, EmptySessionData),
      SessionFile(TRUE, TRUE, S_other, TRUE, EmptySessionData),
      SessionFile(TRUE, TRUE, S_um_session, FALSE, EmptySessionData) }

\* the session files at hand: rejected ones and the last one downloaded
SessionFiles ==
    RejectedSessionFiles \cup
    (IF download.kind = "session" THEN {download.content} ELSE {})

\* a session file exported by another session, in which the sheet of the
\* first room was merged
OtherSessionFile ==
    EncodeSessionOf(ProcessRows(EmptyBatchLocals(0), <<RowA>>).processed,
                    TRUE, <<>>, <<>>, AssignColors(<<>>, <<S_UH>>),
                    DefaultFilters, <<>>, "desktop", DefaultResultsPerPage)

-----------------------------------------------------------------------------
(* The dataset life cycle: merges, occupants, annotation in the modal and   *)
(* session files                                                            *)

Next ==
    \/ /\ \E data \in RoomBatches : processRoomData(data)
       /\ UNCHANGED batch
    \/ /\ \E data \in OccupantBatches : processOccupantData(data)
       /\ UNCHANGED batch
    \/ /\ \E roomId \in RoomIds : handleAddTagClick(roomId)
       /\ UNCHANGED batch
    \/ /\ \E input \in FirstTagNames : addRichTagFromModal(input)
       /\ UNCHANGED batch
    \/ /\ closeTagModal
       /\ UNCHANGED batch
    \/ /\ saveCustomTagsFromModal
       /\ UNCHANGED batch
    \/ /\ exportSession
       /\ UNCHANGED batch
    \/ /\ \E file \in SessionFiles : importSession(file)
       /\ UNCHANGED batch

Spec == Init /\ [][Next]_vars

-----------------------------------------------------------------------------
(* Annotation: the modal and tags files over a merged dataset               *)

NextTags ==
    \/ /\ \E data \in BothRooms : processRoomData(data)
       /\ UNCHANGED batch
    \/ /\ \E roomId \in RoomIds : handleAddTagClick(roomId)
       /\ UNCHANGED batch
    \/ /\ \E input \in FirstTagNames : addRichTagFromModal(input)
       /\ UNCHANGED batch
    \/ /\ \E k \in 1..Cardinality(TagNames) : removeCustomTag(k)
       /\ UNCHANGED batch
    \/ /\ closeTagModal
       /\ UNCHANGED batch
    \/ /\ saveCustomTagsFromModal
       /\ UNCHANGED batch
    \/ /\ exportCustomTags
       /\ UNCHANGED batch
    \/ /\ \E file \in TagsFiles : importCustomTags(file)
       /\ UNCHANGED batch
    \/ /\ importSession(OtherSessionFile)
       /\ UNCHANGED batch

SpecTags == Init /\ [][NextTags]_vars

-----------------------------------------------------------------------------
(* Searching: the query field, the filter dropdowns and the filtered view   *)

\* the input listener of the search field: state.searchQuery = e.target.value
\* (the refresh it schedules is debounced)
searchInput(value) ==
    /\ searchQuery' = value
    /\ UNCHANGED <<datasetVars, customTags, staffTags, buildingColors,
                   unmappedAbbreviations, facetVars, activeFilters,
                   currentViewMode, resultsPerPage, currentFilteredData,
                   indexVars, currentRoomIdForModal, fileVars>>

\* the change listener of the building and floor dropdowns:
\* state.activeFilters[filterType] = e.target.value
filterChange(filterType, value) ==
    /\ activeFilters' = [activeFilters EXCEPT ![filterType] = value]
    /\ UNCHANGED <<datasetVars, customTags, staffTags, buildingColors,
                   unmappedAbbreviations, facetVars, searchQuery,
                   currentViewMode, resultsPerPage, currentFilteredData,
                   indexVars, currentRoomIdForModal, fileVars>>

\* the change listener of the tag dropdown: a tag not yet active is pushed
tagFilterChange(selectedTag) ==
    /\ selectedTag # <<>>
    /\ selectedTag \notin Range(activeFilters.tags)
    /\ activeFilters' = [activeFilters EXCEPT !.tags = Append(@, selectedTag)]
    /\ UNCHANGED <<datasetVars, customTags, staffTags, buildingColors,
                   unmappedAbbreviations, facetVars, searchQuery,
                   currentViewMode, resultsPerPage, currentFilteredData,
                   indexVars, currentRoomIdForModal, fileVars>>

\* the click on the clear-tags button: state.activeFilters.tags = []
clearTags ==
    /\ activeFilters' = [activeFilters EXCEPT !.tags = <<>>]
    /\ UNCHANGED <<datasetVars, customTags, staffTags, buildingColors,
                   unmappedAbbreviations, facetVars, searchQuery,
                   currentViewMode, resultsPerPage, currentFilteredData,
                   indexVars, currentRoomIdForModal, fileVars>>

\* data_getFilteredData() as the refresh of the results view calls it:
\* state.currentFilteredData = result
getFilteredData ==
    /\ dataIsArray   \* otherwise filter throws
    /\ UNCHANGED <<datasetVars, customTags, staffTags, buildingColors,
                   unmappedAbbreviations, facetVars, viewVars, indexVars,
                   currentRoomIdForModal, fileVars>>
    /\ currentFilteredData' =
           data_getFilteredData(searchQuery, activeFilters, processedData,
                                customTags, staffTags)

S_Surg == <<"S", "u", "r", "g">>
S_lab == <<"l", "a", "b">>
S_cv == <<"c", "v">>

\* the terms typed in: one that matches both rooms, one for each room
SearchTermPool == {S_lab, S_Surg, S_cv}

\* the queries typed in: nothing, separators only, one term, two terms
Queries ==
    {<<>>, <<" ", ",">>} \cup SearchTermPool \cup
    {t1 \o <<" ">> \o t2 : t1, t2 \in SearchTermPool}

\* the options of the dropdowns: none, and the facets of the two rooms
BuildingOptions == {<<>>, S_UH, S_CV}
FloorOptions == {<<>>, <<"1">>, <<"2">>}
TagOptions == {S_Lab, S_Surg}

NextSearch ==
    \/ /\ \E data \in RoomBatches : processRoomData(data)
       /\ UNCHANGED batch
    \/ /\ \E value \in Queries : searchInput(value)
       /\ UNCHANGED batch
    \/ /\ \E value \in BuildingOptions : filterChange("building", value)
       /\ UNCHANGED batch
    \/ /\ \E value \in FloorOptions : filterChange("floor", value)
       /\ UNCHANGED batch
    \/ /\ \E selectedTag \in TagOptions : tagFilterChange(selectedTag)
       /\ UNCHANGED batch
    \/ /\ clearTags
       /\ UNCHANGED batch
    \/ /\ getFilteredData
       /\ UNCHANGED batch

SpecSearch == Init /\ [][NextSearch]_vars

-----------------------------------------------------------------------------
(* Session files that are not what exportSession writes                    *)

\* documents with the right type tag whose data block is missing pieces or
\* whose processedData is not a list
MalformedSessionFiles ==
    { SessionFile(TRUE, TRUE, S_um_session, TRUE, EmptySessionData),
      SessionFile(TRUE, TRUE, S_um_session, TRUE,
          SessionData({"processedData"}, FALSE, <<>>, <<>>, <<>>, <<>>,
                      DefaultFilters, <<>>, "", 0)),
      SessionFile(TRUE, TRUE, S_um_session, TRUE,
          SessionData({"processedData", "customTags"}, FALSE, <<>>,
                      (0 :> <<RichTag(S_icu)>>), <<>>, <<>>,
                      DefaultFilters, <<>>, "", 0)) }

NextMalformed ==
    \/ /\ \E data \in BothRooms : processRoomData(data)
       /\ UNCHANGED batch
    \/ /\ \E data \in OccupantBatches : processOccupantData(data)
       /\ UNCHANGED batch
    \/ /\ \E roomId \in RoomIds : handleAddTagClick(roomId)
       /\ UNCHANGED batch
    \/ /\ \E input \in FirstTagNames : addRichTagFromModal(input)
       /\ UNCHANGED batch
    \/ /\ saveCustomTagsFromModal
       /\ UNCHANGED batch
    \/ /\ \E value \in SearchTermPool : searchInput(value)
       /\ UNCHANGED batch
    \/ /\ \E file \in RejectedSessionFiles \cup MalformedSessionFiles :
             importSession(file)
       /\ UNCHANGED batch

SpecMalformed == Init /\ [][NextMalformed]_vars

-----------------------------------------------------------------------------
(* handleFiles(files): one batch of dropped files.  The handler awaits each *)
(* of its callees; batch holds its position: the lists it sorted the files  *)
(* into, and the rows parsed by the room and occupant loops.  A file is     *)
(* named by its position in the batch.                                      *)

\* a dropped file: kind by extension and name, whether parseFile succeeds,
\* and what the file holds (rows, a tags document or a session document)
BatchFile(kind, parses, content) ==
    [kind |-> kind, parses |-> parses, content |-> content]

\* the positions of the files of one kind, in the order supplied
FilesOfKind(files, kind) ==
    SelectSeq([i \in 1..Len(files) |-> i], LAMBDA i : files[i].kind = kind)

\* the outcome records of the unsupported files
UnsupportedOutcomes(files) ==
    [i \in 1..Len(FilesOfKind(files, "unsupported")) |->
        Outcome("unsupported", "error")]

\* the start of handleFiles: the for loop that sorts the files
handleFiles(files) ==
    /\ ~batch.active
    /\ Len(loadedFiles) + Len(files) <= MaxLoaded
    /\ batch' = [active |-> TRUE,
                 files |-> files,
                 sessionFiles |-> FilesOfKind(files, "session"),
                 roomDataFiles |-> FilesOfKind(files, "room"),
                 occupantDataFiles |-> FilesOfKind(files, "occupant"),
                 tagFiles |-> FilesOfKind(files, "tags"),
                 allRoomData |-> <<>>,
                 allOccupantData |-> <<>>]
    /\ loadedFiles' = loadedFiles \o UnsupportedOutcomes(files)
    /\ UNCHANGED <<datasetVars, customTags, staffTags, buildingColors,
                   unmappedAbbreviations, facetVars, viewVars,
                   currentFilteredData, indexVars, currentRoomIdForModal,
                   download, exported, assignedIds>>

\* one iteration of for (const sessionFile of sessionFiles)
handleSessionFile ==
    /\ batch.active
    /\ batch.sessionFiles # <<>>
    /\ importSession(batch.files[Head(batch.sessionFiles)].content)
    /\ batch' = [batch EXCEPT !.sessionFiles = Tail(@)]

\* the rows of the files that parse, concatenated in file order
RECURSIVE ParsedRows(_, _)
ParsedRows(files, positions) ==
    IF positions = <<>> THEN <<>>
    ELSE (IF files[Head(positions)].parses
          THEN files[Head(positions)].content ELSE <<>>)
         \o ParsedRows(files, Tail(positions))

\* the outcome records of the parse loop, one for each file
ParseOutcomes(files, positions, type) ==
    [i \in 1..Len(positions) |->
        Outcome(type, IF files[positions[i]].parses
                      THEN "processed" ELSE "error")]

\* the for loop of processRoomDataFiles
parseRoomDataFiles ==
    /\ batch.active
    /\ batch.sessionFiles = <<>>
    /\ batch.roomDataFiles # <<>>
    /\ batch' = [batch EXCEPT
                    !.roomDataFiles = <<>>,
                    !.allRoomData = ParsedRows(batch.files, batch.roomDataFiles)]
    /\ loadedFiles' = loadedFiles
                      \o ParseOutcomes(batch.files, batch.roomDataFiles, "room")
    /\ UNCHANGED <<datasetVars, customTags, staffTags, buildingColors,
                   unmappedAbbreviations, facetVars, viewVars,
                   currentFilteredData, indexVars, currentRoomIdForModal,
                   download, exported, assignedIds>>

\* if (allRoomData.length > 0) await processRoomData(allRoomData); an
\* exception of processRoomData ends handleFiles
mergeRoomDataFiles ==
    /\ batch.active
    /\ batch.sessionFiles = <<>>
    /\ batch.roomDataFiles = <<>>
    /\ batch.allRoomData # <<>>
    /\ processRoomData(batch.allRoomData)
    /\ batch' = IF dataIsArray THEN [batch EXCEPT !.allRoomData = <<>>]
                ELSE Idle

\* the for loop of processOccupantDataFiles
parseOccupantDataFiles ==
    /\ batch.active
    /\ batch.sessionFiles = <<>>
    /\ batch.roomDataFiles = <<>>
    /\ batch.allRoomData = <<>>
    /\ batch.occupantDataFiles # <<>>
    /\ batch' = [batch EXCEPT
                    !.occupantDataFiles = <<>>,
                    !.allOccupantData =
                        ParsedRows(batch.files, batch.occupantDataFiles)]
    /\ loadedFiles' = loadedFiles
                      \o ParseOutcomes(batch.files, batch.occupantDataFiles,
                                       "occupant")
    /\ UNCHANGED <<datasetVars, customTags, staffTags, buildingColors,
                   unmappedAbbreviations, facetVars, viewVars,
                   currentFilteredData, indexVars, currentRoomIdForModal,
                   download, exported, assignedIds>>

\* if (allOccupantData.length > 0) await processOccupantData(allOccupantData);
\* an exception of processOccupantData ends handleFiles
mergeOccupantDataFiles ==
    /\ batch.active
    /\ batch.sessionFiles = <<>>
    /\ batch.roomDataFiles = <<>>
    /\ batch.allRoomData = <<>>
    /\ batch.occupantDataFiles = <<>>
    /\ batch.allOccupantData # <<>>
    /\ IF dataIsArray
       THEN /\ processOccupantData(batch.allOccupantData)
            /\ batch' = [batch EXCEPT !.allOccupantData = <<>>]
       ELSE /\ UNCHANGED storeVars
            /\ batch' = Idle

\* the room and occupant stages are over
DataFilesDone ==
    /\ batch.sessionFiles = <<>>
    /\ batch.roomDataFiles = <<>>
    /\ batch.allRoomData = <<>>
    /\ batch.occupantDataFiles = <<>>
    /\ batch.allOccupantData = <<>>

\* one iteration of for (const tagFile of tagFiles); importCustomTags
\* catches what it throws
handleTagFile ==
    /\ batch.active
    /\ DataFilesDone
    /\ batch.tagFiles # <<>>
    /\ IF dataIsArray
       THEN importCustomTags(batch.files[Head(batch.tagFiles)].content)
       ELSE UNCHANGED storeVars
    /\ batch' = [batch EXCEPT !.tagFiles = Tail(@)]

\* the end of handleFiles: the refresh of the view
finishFiles ==
    /\ batch.active
    /\ DataFilesDone
    /\ batch.tagFiles = <<>>
    /\ batch' = Idle
    /\ UNCHANGED storeVars

\* a session document whose processedData is not a list
NonListSessionFile ==
    SessionFile(TRUE, TRUE, S_um_session, TRUE,
        SessionData({"processedData"}, FALSE, <<>>, <<>>, <<>>, <<>>,
                    DefaultFilters, <<>>, "", 0))

\* the files at hand: sheets that parse and one that does not, an occupant
\* sheet, session files (one exported by another session, one that is not
\* base64 text, one whose processedData is not a list), a tags file and a
\* file of another type
DroppedFiles ==
    { BatchFile("room", TRUE, <<RowA>>),
      BatchFile("room", TRUE, <<RowB>>),
      BatchFile("room", FALSE, <<>>),
      BatchFile("occupant", TRUE, <<Occupant(Num(7), Str(S_Al))>>),
      BatchFile("session", TRUE, OtherSessionFile),
      BatchFile("session", TRUE,
                SessionFile(FALSE, FALSE, <<>>, FALSE, EmptySessionData)),
      BatchFile("session", TRUE, NonListSessionFile),
      BatchFile("tags", TRUE,
                TagsFile(TRUE, TRUE, (0 :> <<StringEntry(S_icu)>>), FALSE,
                         NoRefs)),
      BatchFile("unsupported", TRUE, <<>>) }

MaxBatch == 2       \* files in one batch

\* the batches dropped: up to MaxBatch files in any order
Batches ==
    UNION {[1..n -> DroppedFiles] : n \in 1..MaxBatch}

NextBatch ==
    \/ \E files \in Batches : handleFiles(files)
    \/ handleSessionFile
    \/ parseRoomDataFiles
    \/ mergeRoomDataFiles
    \/ parseOccupantDataFiles
    \/ mergeOccupantDataFiles
    \/ handleTagFile
    \/ finishFiles

SpecBatch == Init /\ [][NextBatch]_vars

-----------------------------------------------------------------------------
(* Properties                                                               *)

\* C1: in every state reached by room merges and imports of exported
\* sessions, no two rooms of state.processedData have the same id
UniqueRoomIds ==
    dataIsArray =>
        \A i, j \in 1..Len(processedData) :
            i # j => processedData[i].id # processedData[j].id

\* two rooms from the same sheet row, merged before and after the import of
\* a session that dropped the other room
UniqueRoomIdsWitness ==
    /\ Len(processedData) = 2
    /\ processedData[1].rmrecnbr = Num(7)
    /\ processedData[2].rmrecnbr = Num(7)
    /\ processedData[1].id # processedData[2].id
    /\ S_XR \in DOMAIN unmappedAbbreviations
    /\ exported.done

\* C2: whenever the tag modal is closed, state.autocompleteItems equals
\* buildUnifiedAutocomplete() of the current rooms, custom tags and staff tags
AutocompleteIsCurrent ==
    (dataIsArray /\ ~currentRoomIdForModal.open) =>
        autocompleteItems =
            buildUnifiedAutocomplete(processedData, customTags, staffTags)

\* C3: a search for "t1 t2" returns exactly the rooms that a search for t1
\* and a search for t2 both return
InBoth(t1, t2) ==
    LET first == searchRoomsByTags(t1, processedData, customTags, staffTags)
        second == searchRoomsByTags(t2, processedData, customTags, staffTags)
    IN SelectSeq(processedData,
                 LAMBDA room : room \in Range(first) /\ room \in Range(second))

TwoTermsIntersect ==
    [][(getFilteredData /\ activeFilters = DefaultFilters)
          => \A t1, t2 \in SearchTermPool :
                searchQuery = t1 \o <<" ">> \o t2
                    => currentFilteredData' = InBoth(t1, t2)]_vars

\* the view after a search for two terms of which one matches both rooms and
\* the other only one
TwoTermsIntersectWitness ==
    /\ Len(processedData) = 2
    /\ activeFilters = DefaultFilters
    /\ searchQuery = S_lab \o <<" ">> \o S_Surg
    /\ Len(currentFilteredData) = 1
    /\ currentFilteredData = InBoth(S_lab, S_Surg)
    /\ Len(searchRoomsByTags(S_lab, processedData, customTags, staffTags)) = 2

\* C4: a search returns every room in dataset order when the query is empty
\* or consists of separators only, returns a sub-list of the dataset for any
\* query, and leaves the dataset as it was
SeparatorsOnly(query) == \A i \in 1..Len(query) : query[i] \in {" ", ","}

IsSubList(xs, data) ==
    xs = SelectSeq(data, LAMBDA room : room \in Range(xs))

SearchReturnsSubList ==
    [][(getFilteredData /\ activeFilters = DefaultFilters)
          => /\ processedData' = processedData
             /\ IsSubList(currentFilteredData', processedData)
             /\ SeparatorsOnly(searchQuery)
                    => currentFilteredData' = processedData]_vars

\* the view after a search for a blank and a comma over two rooms
SearchReturnsSubListWitness ==
    /\ Len(processedData) = 2
    /\ activeFilters = DefaultFilters
    /\ searchQuery = <<" ", ",">>
    /\ currentFilteredData = processedData

\* C5: every room that data_getFilteredData returns has the building of the
\* building filter and the floor of the floor filter when these are set,
\* whatever the query and the tag filters
FiltersNarrow ==
    [][getFilteredData =>
          \A i \in 1..Len(currentFilteredData') :
              /\ activeFilters.building # <<>>
                    => currentFilteredData'[i].building = activeFilters.building
              /\ activeFilters.floor # <<>>
                    => ToStr(currentFilteredData'[i].floor) = activeFilters.floor
      ]_vars

\* C6: importing the document that exportSession produced restores the
\* rooms, custom tags and staff tags that were exported, whatever the state
\* before the import, and the facet lists hold the values they held at the
\* export
SessionRoundTrip ==
    [][(download.kind = "session" /\ importSession(download.content))
          => /\ processedData' = exported.processedData
             /\ customTags' = exported.customTags
             /\ staffTags' = exported.staffTags
             /\ Range(availableBuildings') = exported.availableBuildings
             /\ Range(availableFloors') = exported.availableFloors
             /\ Range(availableTags') = exported.availableTags]_vars

\* the exported session restored over a dataset that had a second room since
\* (the modal still names it)
SessionRoundTripWitness ==
    /\ exported.done
    /\ download.kind = "session"
    /\ Len(processedData) = 1
    /\ processedData = exported.processedData
    /\ processedData[1].rmsubtyp_descrshort = Null
    /\ customTags = exported.customTags
    /\ DOMAIN customTags = {0}
    /\ customTags[0] # <<>>
    /\ staffTags = exported.staffTags
    /\ DOMAIN staffTags = {0}
    /\ currentRoomIdForModal = [open |-> TRUE, id |-> 1]

\* C7: a call of importSession that ends in its catch block leaves the
\* dataset, the tag maps, the colours, the filters, the query, the view mode,
\* the page size and the facet lists as they were
FailedImportKeepsState ==
    [][\A file \in RejectedSessionFiles \cup MalformedSessionFiles :
          (importSession(file) /\ importSessionThrows(file))
          => UNCHANGED <<processedData, dataIsArray, customTags, staffTags,
                         buildingColors, activeFilters, searchQuery,
                         currentViewMode, resultsPerPage, availableBuildings,
                         availableFloors, availableTags>>]_vars

\* C8: importCustomTags attaches the tags of a room entry to the first room
\* found by the record number of the reference block, else by the key of the
\* entry, else by room number and building, else by room number; a record
\* number that matches one room wins over a key that is the id of another
Candidates(file, key) ==
    LET data == processedData
        hasRef == file.hasRoomReference /\ key \in DOMAIN file.roomReference
        ref == file.roomReference[key]
    IN << {i \in 1..Len(data) :
              /\ hasRef
              /\ Truthy(ref.rmrecnbr)
              /\ ToStr(data[i].rmrecnbr) = ToStr(ref.rmrecnbr)},
          {i \in 1..Len(data) : data[i].id = key},
          {i \in 1..Len(data) :
              /\ hasRef
              /\ Truthy(ref.rmnbr)
              /\ Truthy(ref.building)
              /\ data[i].rmnbr = ref.rmnbr
              /\ (data[i].bld_descrshort = ref.building
                  \/ Str(data[i].building) = ref.building)},
          {i \in 1..Len(data) :
              hasRef /\ Truthy(ref.rmnbr) /\ data[i].rmnbr = ref.rmnbr} >>

\* the rooms the first successful rule finds; none when every rule fails
FirstHit(file, key) ==
    LET c == Candidates(file, key)
        hits == {n \in 1..4 : c[n] # {}}
    IN IF hits = {} THEN {}
       ELSE c[CHOOSE n \in hits : \A o \in hits : n <= o]

\* tags files with one room entry whose list is not empty and has no null
OneEntryFiles ==
    {file \in UserTagsFiles :
        /\ file.parses
        /\ file.hasCustomTags
        /\ Cardinality(DOMAIN file.customTags) = 1
        /\ \A key \in DOMAIN file.customTags :
              /\ file.customTags[key] # <<>>
              /\ \A n \in 1..Len(file.customTags[key]) :
                    file.customTags[key][n].kind # "null"}

ImportResolutionOrder ==
    [][\A file \in OneEntryFiles :
          importCustomTags(file) =>
              \A key \in DOMAIN file.customTags :
                  LET hit == FirstHit(file, key)
                  IN IF hit = {} THEN customTags' = customTags
                     ELSE LET target ==
                                  processedData[CHOOSE i \in hit :
                                                   \A j \in hit : i <= j].id
                          IN /\ DOMAIN customTags' =
                                    DOMAIN customTags \cup {target}
                             /\ \A n \in 1..Len(file.customTags[key]) :
                                   HasName(customTags'[target],
                                           file.customTags[key][n].tag.name)
                             /\ \A id \in DOMAIN customTags \ {target} :
                                   customTags'[id] = customTags[id]]_vars

\* the tag of the file whose key is the id of the second room is on the
\* first room, which has the record number of the reference block, and not
\* on the second
ImportResolutionOrderWitness ==
    /\ Len(processedData) = 2
    /\ processedData[1].id = 0
    /\ processedData[1].rmrecnbr = Num(7)
    /\ processedData[2].id = 1
    /\ RedTag \in Range(ListAt(customTags, 0))
    /\ RedTag \notin Range(ListAt(customTags, 1))

\* C9: no room has two custom tags whose names are equal ignoring case
NoDuplicateTagNames ==
    \A id \in DOMAIN customTags :
        \A i, j \in 1..Len(customTags[id]) :
            i # j => toLowerCase(customTags[id][i].name)
                        # toLowerCase(customTags[id][j].name)

\* C10: exportCustomTags downloads a document iff some room of the dataset
\* has a custom-tag list that is not empty, and otherwise changes nothing;
\* the customTags and roomReference blocks of the document have the same
\* keys, the ids of those rooms
TaggedRoomIds ==
    {processedData[i].id : i \in 1..Len(processedData)} \cap
    {id \in DOMAIN customTags : customTags[id] # <<>>}

ExportTagsNeedsTaggedRoom ==
    [][exportCustomTags =>
          IF TaggedRoomIds # {}
          THEN /\ download'.kind = "tags"
               /\ DOMAIN download'.content.customTags = TaggedRoomIds
               /\ DOMAIN download'.content.roomReference = TaggedRoomIds
          ELSE UNCHANGED vars]_vars

\* a document was downloaded for the tagged room of the dataset while the
\* tags of a room that is no longer in the dataset stayed out of it
ExportTagsNeedsTaggedRoomWitness ==
    /\ download.kind = "tags"
    /\ download.content = ExportData(processedData, customTags)
    /\ DOMAIN download.content.customTags = TaggedRoomIds
    /\ \E id \in DOMAIN customTags :
          /\ customTags[id] # <<>>
          /\ ~HasRoomWithId(processedData, id)

\* C11: after a merge the count of every unmapped code is its count before
\* the merge plus the number of times the batch passed it to
\* normalizeAbbreviation
IsUnmappedCode(cell, c) ==
    /\ Truthy(cell)
    /\ ToStr(cell) = c
    /\ c \notin DOMAIN customAbbreviationMappings
    /\ c \notin DOMAIN abbreviationMap

\* the number of times the rows of a batch pass the unmapped code c
OccurrencesIn(data, c) ==
    Cardinality({i \in 1..Len(data) :
                    ~SkipRow(data[i]) /\ IsUnmappedCode(data[i].rmtyp_descrshort, c)})
    + Cardinality({i \in 1..Len(data) :
                    ~SkipRow(data[i]) /\ IsUnmappedCode(data[i].rmsubtyp_descrshort, c)})

UnmappedCodes == {S_XR, S_OR}

UnmappedCountsAccumulate ==
    [][\A data \in RoomBatches :
          processRoomData(data) =>
              \A c \in UnmappedCodes :
                  OccurrencesIn(data, c) > 0 =>
                      /\ c \in DOMAIN unmappedAbbreviations'
                      /\ unmappedAbbreviations'[c] =
                             (IF c \in DOMAIN unmappedAbbreviations
                              THEN unmappedAbbreviations[c] ELSE 0)
                             + OccurrencesIn(data, c)]_vars

\* C12: a merge only adds to the facet lists, and in every state the facet
\* lists hold the building, the floor label and every category tag of every
\* room of the dataset
FacetsCoverRooms ==
    dataIsArray =>
        \A i \in 1..Len(processedData) :
            /\ processedData[i].building \in Range(availableBuildings)
            /\ ToStr(processedData[i].floor) \in Range(availableFloors)
            /\ Range(processedData[i].tags) \subseteq Range(availableTags)

FacetsGrowAndCover ==
    /\ []FacetsCoverRooms
    /\ [][\A data \in RoomBatches :
             processRoomData(data) =>
                 /\ Range(availableBuildings) \subseteq Range(availableBuildings')
                 /\ Range(availableFloors) \subseteq Range(availableFloors')
                 /\ Range(availableTags) \subseteq Range(availableTags')]_vars

\* two rooms merged by two batches, the second adding a building, a floor
\* and a tag to the facet lists
FacetsGrowAndCoverWitness ==
    /\ Len(processedData) = 2
    /\ processedData[1].rmrecnbr = Num(8)
    /\ processedData[2].rmrecnbr = Num(7)
    /\ Range(availableBuildings) = {S_UH, S_CV}
    /\ Range(availableFloors) = {<<"1">>, <<"2">>}
    /\ Range(availableTags) = {S_Lab, S_Surg}

\* C13: the files of a batch are processed in the order supplied: whenever
\* a step of handleFiles processes some files, every file that is left for
\* later comes after them in the batch
Waiting(b) ==
    IF b.active
    THEN Range(b.sessionFiles) \cup Range(b.roomDataFiles)
         \cup Range(b.occupantDataFiles) \cup Range(b.tagFiles)
    ELSE {}

FilesInOrderSupplied ==
    [][(batch.active /\ batch'.active) =>
          \A g \in Waiting(batch) \ Waiting(batch') :
              \A f \in Waiting(batch') : g < f]_vars

\* C14: every file of a batch yields exactly one record in
\* state.loadedFiles: each step of handleFiles adds as many records as it
\* takes files off its lists (at the start, as many as it finds unsupported),
\* and the files left on the lists are not dropped
FilesLeft(b) ==
    IF b.active
    THEN Len(b.sessionFiles) + Len(b.roomDataFiles)
         + Len(b.occupantDataFiles) + Len(b.tagFiles)
    ELSE 0

OneRecordForEachFile ==
    [][(batch' # batch) =>
          LET supplied == IF batch.active THEN 0 ELSE Len(batch'.files)
          IN Len(loadedFiles') - Len(loadedFiles)
                 = FilesLeft(batch) + supplied - FilesLeft(batch')]_vars

\* C15: an id is never reused: a merge gives its rooms ids greater than
\* every id that an earlier merge assigned, also after a session import has
\* replaced the dataset by a smaller one, and it leaves the ids of the rooms
\* already in the dataset as they are
IdsNeverReused ==
    [][\A data \in RoomBatches :
          (processRoomData(data) /\ dataIsArray) =>
              /\ \A i \in 1..Len(processedData) :
                    processedData'[i].id = processedData[i].id
              /\ \A i \in (Len(processedData) + 1)..Len(processedData') :
                    \A earlier \in assignedIds :
                        processedData'[i].id > earlier]_vars

\* C16: the list that buildUnifiedAutocomplete returns has at most as many
\* entries as the cap, for every value of the cap
AutocompleteWithinCap ==
    indexed.built =>
        \A cap \in 1..MaxCap :
            Len(SortStrings(SuggestionsOf({}, indexed.processedData,
                                          indexed.customTags,
                                          indexed.staffTags, cap))) <= cap

-----------------------------------------------------------------------------
(* Single search terms over spreadsheets with unusual cells                *)

S_XRay == <<"X", " ", "R", "a", "y">>
S_B1 == <<"B", "1">>

\* further spreadsheet rows: a department of two words, a floor label with
\* a letter, the room number 0, the floor 0, a null floor and a null room
\* number
RowRay == Row(Num(3), Num(1), Str(S_UH), Undef, Undef, Str(S_XRay), Num(6))
RowBasement == Row(Num(5), Str(S_B1), Str(S_UH), Undef, Undef, Str(S_Lab), Num(5))
RowZero == Row(Num(0), Num(1), Str(S_CV), Undef, Undef, Str(S_Lab), Num(4))
RowGround == Row(Num(4), Num(0), Str(S_CV), Undef, Undef, Undef, Num(3))
RowNullFloor == Row(Num(9), Null, Str(S_UH), Undef, Undef, Undef, Num(2))
RowNullNumber == Row(Null, Num(2), Str(S_UH), Undef, Undef, Undef, Num(1))

\* the spreadsheets at hand in the sessions that search by one term
TermBatches ==
    {<<RowA>>, <<RowB>>, <<RowRay>>, <<RowBasement>>, <<RowZero, RowA>>,
     <<RowGround>>, <<RowNullFloor, RowB>>, <<RowNullNumber, RowRay>>,
     <<RowNoNumber, RowB>>}

\* terms without hyphen: one letter, one digit, two characters at the start
\* and in the middle of a tag, three characters in the middle of a tag, a
\* whole tag
PlainTerms ==
    {<<"l">>, <<"1">>, <<"2">>, <<"l", "a">>, <<"a", "b">>,
     <<"u", "r", "g">>, <<"l", "a", "b">>, <<"b", "1">>}

\* terms with a hyphen: a one-letter part, two longer parts, an empty part
CompoundTerms ==
    {<<"x", "-", "r", "a", "y">>, <<"a", "b", "-", "c", "v">>,
     <<"r", "a", "-">>}

NextTerms ==
    \/ /\ \E data \in TermBatches : processRoomData(data)
       /\ UNCHANGED batch
    \/ /\ \E value \in PlainTerms \cup CompoundTerms : searchInput(value)
       /\ UNCHANGED batch
    \/ /\ getFilteredData
       /\ UNCHANGED batch

SpecTerms == Init /\ [][NextTerms]_vars

\* the room is in the list
InList(room, list) == \E j \in 1..Len(list) : list[j] = room

\* the tag is hit by a term through equality, start or containment
PlainHit(t, term) ==
    \/ t = term
    \/ startsWith(t, term) /\ (Len(term) >= 2 \/ IsDigit(term[1]))
    \/ includes(t, term) /\ Len(term) >= 3

\* C17: for a query of one term without hyphen, a room is in the result
\* exactly if one of its tags equals the term, or starts with it while the
\* term has two characters or more or starts with a digit, or contains it
\* while the term has three characters or more
PlainTermMatching ==
    [][(getFilteredData /\ searchQuery \in PlainTerms
          /\ activeFilters = DefaultFilters)
       => \A i \in 1..Len(processedData) :
             LET room == processedData[i]
                 roomTags == createUnifiedTags(room, customTags, staffTags)
             IN InList(room, currentFilteredData')
                <=> \E j \in 1..Len(roomTags) :
                       PlainHit(roomTags[j], searchQuery)]_vars

\* the search for the digit 1 has run over room 12 on floor 1 and room 4 on
\* floor 0 and found the first only
PlainTermMatchingWitness ==
    /\ searchQuery = <<"1">>
    /\ Len(processedData) = 2
    /\ processedData[1].rmnbr = Num(12)
    /\ processedData[2].floor = Num(0)
    /\ currentFilteredData = <<processedData[1]>>


\* the parts of a compound term that have more than one character
LongParts(term) == WordsLonger(split(term, Whitespace \cup {"-"}), 1)

\* C18: for a query of one term with a hyphen that hits no tag of a room
\* through equality, start or containment, the room is in the result
\* exactly if every part of the term that has more than one character is
\* contained in one of the room's tags
CompoundTermMatching ==
    [][(getFilteredData /\ searchQuery \in CompoundTerms
          /\ activeFilters = DefaultFilters)
       => \A i \in 1..Len(processedData) :
             LET room == processedData[i]
                 roomTags == createUnifiedTags(room, customTags, staffTags)
                 parts == LongParts(searchQuery)
             IN (\A j \in 1..Len(roomTags) :
                    ~PlainHit(roomTags[j], searchQuery))
                => (InList(room, currentFilteredData')
                    <=> \A k \in 1..Len(parts) :
                           \E j \in 1..Len(roomTags) :
                              includes(roomTags[j], parts[k]))]_vars


\* C19: every token of createUnifiedTags(room) is in lowercase, for every
\* room of the dataset
TokensAreLowercase ==
    \A i \in 1..Len(processedData) :
        LET roomTags == createUnifiedTags(processedData[i], customTags,
                                          staffTags)
        IN \A j \in 1..Len(roomTags) : roomTags[j] = toLowerCase(roomTags[j])


\* the cell is absent or null
Missing(cell) == cell.t = "undef" \/ cell.t = "null"

\* the rows of a sheet of which neither the room number nor the floor is
\* absent or null
RowsWithNumberAndFloor(data) ==
    SelectSeq(data, LAMBDA row : ~Missing(row.rmnbr) /\ ~Missing(row.floor))

\* C20: a merge adds one room record for every row of the sheet whose room
\* number and floor are neither absent nor null, also if the room number or
\* the floor is the number 0, and none for the other rows
RowsSkippedOnlyWhenMissing ==
    [][\A data \in TermBatches :
          (processRoomData(data) /\ dataIsArray)
          => LET kept == RowsWithNumberAndFloor(data)
                 n == Len(processedData)
             IN /\ Len(processedData') = n + Len(kept)
                /\ \A k \in 1..Len(kept) :
                      /\ processedData'[n + k].rmnbr = kept[k].rmnbr
                      /\ processedData'[n + k].floor = kept[k].floor]_vars


-----------------------------------------------------------------------------
(* Sheets with the combinations of room type and subtype                   *)

S_LB == <<"L", "B">>
S_Blank == <<" ", " ">>

\* rows by type and subtype: a pair with a composite label of its own, the
\* same code twice, a type of the user's table with an unknown subtype, a
\* type of blanks and a subtype of blanks
RowPairOverride == Row(Num(21), Num(1), Str(S_UH), Str(S_OR), Str(S_XR), Undef, Num(7))
RowSameTwice == Row(Num(22), Num(1), Str(S_UH), Str(S_OR), Str(S_OR), Undef, Num(8))
RowUserType == Row(Num(23), Num(2), Str(S_CV), Str(S_LB), Str(S_XR), Undef, Num(7))
RowBlankType == Row(Num(24), Num(2), Str(S_CV), Str(S_Blank), Str(S_XR), Undef, Num(8))
RowBlankSub == Row(Num(25), Num(1), Str(S_UH), Str(S_XR), Str(S_Blank), Undef, Num(7))

\* the spreadsheets at hand in the sessions that merge types
TypeBatches ==
    {<<RowA>>, <<RowB>>, <<RowPairOverride>>, <<RowSameTwice>>,
     <<RowUserType>>, <<RowBlankType>>, <<RowBlankSub>>,
     <<RowSameTwice, RowPairOverride>>}

NextTypes ==
    \/ /\ \E data \in TypeBatches : processRoomData(data)
       /\ UNCHANGED batch
    \/ /\ \E data \in OccupantBatches : processOccupantData(data)
       /\ UNCHANGED batch

SpecTypes == Init /\ [][NextTypes]_vars

\* the label of a cell after normalization
LabelOf(cell) == normalizeAbbreviation(cell, <<>>).label

\* the composite label by precedence: the label of the pair, the type alone
\* if type and subtype are the same, the two joined otherwise
TypeFullByPrecedence(type, sub) ==
    LET key == trim(type \o <<" ">> \o sub)
    IN IF key \in DOMAIN fullReplacements THEN fullReplacements[key]
       ELSE IF type = sub THEN type
       ELSE type \o <<" ", "-", " ">> \o sub

\* C21: the typeFull of every merged room is the label of the pair of its
\* normalized type and subtype if the pair has one, else the type alone if
\* type and subtype are the same, else "type - subtype", also when the
\* subtype is empty
TypeFullPrecedence ==
    \A i \in 1..Len(processedData) :
        LET room == processedData[i]
        IN room.typeFull =
               TypeFullByPrecedence(LabelOf(room.rmtyp_descrshort),
                                    LabelOf(room.rmsubtyp_descrshort))


\* the cell is absent, null, empty or holds blanks only
IsBlank(cell) ==
    \/ Missing(cell)
    \/ cell.t = "str" /\ \A i \in 1..Len(cell.s) : cell.s[i] \in Whitespace

\* the type and subtype cells of the merged rooms
CodeCells ==
    {processedData[i].rmtyp_descrshort : i \in 1..Len(processedData)}
    \cup {processedData[i].rmsubtyp_descrshort : i \in 1..Len(processedData)}

\* C22: normalizeAbbreviation, applied to a type or subtype cell of a merged
\* room, returns the empty string and leaves the counter as it is if the
\* cell is empty or holds blanks only; otherwise it returns the label of the
\* user's table if there is one, else the built-in label if there is one,
\* else the code itself
NormalizeByTables ==
    \A cell \in CodeCells :
        LET r == normalizeAbbreviation(cell, unmappedAbbreviations)
            a == ToStr(cell)
        IN IF IsBlank(cell)
           THEN r.label = <<>> /\ r.unmapped = unmappedAbbreviations
           ELSE r.label =
                   IF a \in DOMAIN customAbbreviationMappings
                   THEN customAbbreviationMappings[a]
                   ELSE IF a \in DOMAIN abbreviationMap
                   THEN abbreviationMap[a]
                   ELSE a


\* C23: an importCustomTags that ends in its error path (content that does
\* not parse, no customTags field, or an exception while an entry is
\* processed) leaves state.customTags exactly as it was before the call
FailedTagImportKeepsTags ==
    [][\A file \in TagsFiles :
          (/\ importCustomTags(file)
           /\ ImportTagsResult(file, processedData, customTags).thrown)
          => customTags' = customTags]_vars


\* the dataset and the annotation maps
annotatedData == <<processedData, dataIsArray, customTags, staffTags>>

\* C24: every step of a batch of files that changes the dataset or an
\* annotation map also rebuilds the index and the autocomplete list from the
\* changed state, so that no step in between sees the change beside the list
\* of the state before it
FileStepsRebuildIndex ==
    [][(annotatedData' # annotatedData)
       => /\ indexed'.built
          /\ indexed'.processedData = processedData'
          /\ indexed'.customTags = customTags'
          /\ indexed'.staffTags = staffTags']_vars


\* the ids of the rooms of the dataset
PresentRoomIds == {processedData[i].id : i \in 1..Len(processedData)}

\* C25: every key of state.customTags and of state.staffTags is the id of a
\* room of state.processedData
AnnotationKeysAreRoomIds ==
    (DOMAIN customTags \cup DOMAIN staffTags) \subseteq PresentRoomIds

=============================================================================
